---- MODULE Spec2Model ----
(***************************************************************************)
(* Model of the fan-control service (service.ts): one shared UDP socket,   *)
(* the retry wrapper withRetry, the transport sendUdpMessage, the six      *)
(* facade operations and cleanup.                                          *)
(*                                                                         *)
(* JavaScript runs one macrotask at a time, so everything a handler does   *)
(* between two awaits on a timer or a socket callback is one action here   *)
(* (promise continuations are microtasks: they run before the next         *)
(* macrotask).                                                             *)
(***************************************************************************)
EXTENDS Integers, Sequences, FiniteSets, TLC

\* ---- bounds of the model ------------------------------------------------
NumProcs == 2          \* slots for concurrently running operations
MaxCalls == 2          \* operations invoked in one behaviour
MaxRetriesBound == 3   \* UDP_RETRY_ATTEMPTS is drawn from 1..MaxRetriesBound
MaxCleanups == 2       \* calls of cleanup() in one behaviour
MaxLate == 1           \* timed-out sends of one operation whose callback is followed
MaxSpeedInput == 9     \* validateFanSpeed is applied to numbers from -MaxSpeedInput to MaxSpeedInput

Procs == 1..NumProcs

\* ---- program constants --------------------------------------------------
baseDelay == 100

\* errors.ts 46-53
ERROR_MESSAGES(code) ==
  CASE code = "INVALID_SPEED"   -> "Fan speed must be between 1 and 6"
    [] code = "UDP_SEND_FAILED" -> "Failed to send UDP message to fan"
    [] code = "INVALID_IP"      -> "Invalid fan IP address"
    [] code = "INVALID_PORT"    -> "Invalid fan port number"
    [] code = "TIMEOUT"         -> "Operation timed out"
    [] code = "RETRY_EXHAUSTED" -> "Maximum retry attempts exceeded"

\* errors.ts 14-19
ValidationError(message) ==
  [name |-> "ValidationError", code |-> "VALIDATION_ERROR", statusCode |-> 400,
   message |-> message]

\* errors.ts 21-26
NetworkError(message) ==
  [name |-> "NetworkError", code |-> "NETWORK_ERROR", statusCode |-> 503,
   message |-> message]

\* What client.send throws when the socket has been closed (dgram's
\* ERR_SOCKET_DGRAM_NOT_RUNNING): a plain Error, not a FanControlError.
NotRunningError ==
  [name |-> "Error", code |-> "ERR_SOCKET_DGRAM_NOT_RUNNING", statusCode |-> 0,
   message |-> "Not running"]

NoError == [name |-> "", code |-> "", statusCode |-> 0, message |-> ""]

\* ---- values handed to setFanSpeed ---------------------------------------
\* A JavaScript value: an integer v, a non-integer number whose floor is v,
\* NaN, or a string.
JsInt(v) == [t |-> "int", v |-> v]
JsFloat(v) == [t |-> "float", v |-> v]
JsNaN == [t |-> "nan", v |-> 0]
JsString == [t |-> "string", v |-> 0]
NoArg == [t |-> "undefined", v |-> 0]

SpeedInputs == {JsInt(0), JsInt(1), JsInt(6), JsInt(7), JsFloat(2), JsNaN}

\* the values validateFanSpeed is applied to on its own
SpeedValues ==
  {JsInt(v) : v \in -MaxSpeedInput..MaxSpeedInput}
    \cup {JsFloat(v) : v \in -MaxSpeedInput..MaxSpeedInput}
    \cup {JsNaN, JsString, NoArg}

\* validation.ts 5-9: z.number().int().min(1, ..).max(6, ..); the result is
\* the list of issue messages, in the order zod reports them.
fanSpeedSchema(x) ==
  IF x.t = "undefined" THEN <<"Required">>
  ELSE IF x.t = "string" THEN <<"Expected number, received string">>
  ELSE IF x.t = "nan" THEN <<"Expected number, received nan">>
  ELSE (IF x.t = "float" THEN <<"Expected integer, received float">> ELSE <<>>)
       \o (IF x.v < 1 THEN <<ERROR_MESSAGES("INVALID_SPEED")>> ELSE <<>>)
       \o (IF x.v > 6 \/ (x.t = "float" /\ x.v = 6)
             THEN <<ERROR_MESSAGES("INVALID_SPEED")>> ELSE <<>>)

\* validateFanSpeed without the upper limit of the schema
validateFanSpeedNoMax(speed) ==
  IF speed.t = "int" /\ speed.v >= 1
    THEN [ok |-> TRUE, value |-> speed.v, error |-> NoError]
    ELSE [ok |-> FALSE, value |-> 0,
          error |-> ValidationError(ERROR_MESSAGES("INVALID_SPEED"))]

\* validation.ts 25-34
validateFanSpeed(speed) ==
  LET errors == fanSpeedSchema(speed) IN
  IF errors = <<>>
    THEN [ok |-> TRUE, value |-> speed.v, error |-> NoError]
    ELSE [ok |-> FALSE, value |-> 0, error |-> ValidationError(errors[1])]

\* ---- strings: the list of their characters -----------------------------
JsStr(chars) == [t |-> "string", v |-> chars]

Digits == {"0", "1", "2", "3", "4", "5", "6", "7", "8", "9"}
HexDigits == Digits \cup {"a", "b", "c", "d", "e", "f"}
DigitValue(c) ==
  CASE c = "0" -> 0 [] c = "1" -> 1 [] c = "2" -> 2 [] c = "3" -> 3 [] c = "4" -> 4
    [] c = "5" -> 5 [] c = "6" -> 6 [] c = "7" -> 7 [] c = "8" -> 8 [] c = "9" -> 9

IsDigits(s) == Len(s) >= 1 /\ \A i \in 1..Len(s) : s[i] \in Digits
IsHex(s) == Len(s) >= 1 /\ \A i \in 1..Len(s) : s[i] \in HexDigits

RECURSIVE DecValue(_)
DecValue(s) ==
  IF s = <<>> THEN 0
  ELSE 10 * DecValue(SubSeq(s, 1, Len(s) - 1)) + DigitValue(s[Len(s)])

\* String.prototype.split for a separator of one character
RECURSIVE Split(_, _)
Split(s, sep) ==
  IF \E i \in 1..Len(s) : s[i] = sep
    THEN LET i == CHOOSE i \in 1..Len(s) :
                    s[i] = sep /\ \A j \in 1..(i - 1) : s[j] # sep
         IN  <<SubSeq(s, 1, i - 1)>> \o Split(SubSeq(s, i + 1, Len(s)), sep)
    ELSE <<s>>

\* the strings validateIpAddress is applied to on its own
IpStrings ==
  { <<"1","9","2",".","1","6","8",".","1",".","1","3">>,
    <<"1","0",".","0",".","0",".","1">>,
    <<"2","5","5",".","2","5","5",".","2","5","5",".","2","5","5">>,
    <<"0",".","0",".","0",".","0">>,
    <<"1",".","2",".","3">>,
    <<"1",".","2",".","3",".","4",".","5">>,
    <<"2","5","6",".","1",".","1",".","1">>,
    <<"1",".","2",".","3",".","9","9","9">>,
    <<"1",".",".","2",".","3">>,
    <<"a",".","b",".","c",".","d">>,
    <<>>,
    <<"1",".","2",".","3",".","4","/","2","4">>,
    <<":",":","1">>,
    <<"f","e","8","0",":",":","1">>,
    <<"1",":","2",":","3",":","4",":","5",":","6",":","7",":","8">>,
    <<"1",":","2",":","3">>,
    <<"1","2","3","4","5",":",":","1">> }

\* an argument that is not a string: some number, or undefined
NotAString == {[t |-> "number", v |-> <<>>], [t |-> "undefined", v |-> <<>>]}

IpValues == {JsStr(s) : s \in IpStrings} \cup NotAString

\* zod's string().ip() for IPv4: four parts between dots, each of one or two
\* digits or a number from 100 to 255. (zod versions differ on an octet with
\* a leading zero; IpStrings has none.)
ZodIPv4(s) ==
  LET parts == Split(s, ".") IN
  /\ Len(parts) = 4
  /\ \A i \in 1..4 :
       /\ IsDigits(parts[i])
       /\ \/ Len(parts[i]) <= 2
          \/ Len(parts[i]) = 3 /\ DecValue(parts[i]) >= 100 /\ DecValue(parts[i]) <= 255

\* zod's string().ip() for IPv6: groups of one to four hex digits between
\* colons, eight of them, or fewer with one "::" at the start or inside.
ZodIPv6(s) ==
  LET parts == Split(s, ":")
      n == Len(parts)
      Group(i) == IsHex(parts[i]) /\ Len(parts[i]) <= 4
  IN  /\ n >= 3
      /\ Group(n)
      /\ \/ n = 8 /\ \A i \in 1..n : Group(i)
         \/ /\ n <= 9
            /\ parts[1] = <<>> /\ parts[2] = <<>>
            /\ \A i \in 3..n : Group(i)
         \/ /\ n <= 8
            /\ \E k \in 2..(n - 1) :
                 /\ parts[k] = <<>>
                 /\ \A i \in (1..n) \ {k} : Group(i)

\* validation.ts 11-14: z.string().ip().refine(ip => ip !== '0.0.0.0', ..);
\* ip() without a version accepts IPv4 and IPv6. The result is the list of
\* issue messages.
ipAddressSchema(x) ==
  IF x.t = "undefined" THEN <<"Required">>
  ELSE IF x.t # "string" THEN <<"Expected string, received number">>
  ELSE (IF ZodIPv4(x.v) \/ ZodIPv6(x.v) THEN <<>> ELSE <<"Invalid ip">>)
       \o (IF x.v = <<"0",".","0",".","0",".","0">>
             THEN <<"IP address cannot be 0.0.0.0">> ELSE <<>>)

\* validation.ts 36-45
validateIpAddress(ip) ==
  LET errors == ipAddressSchema(ip) IN
  IF errors = <<>>
    THEN [ok |-> TRUE, value |-> ip.v, error |-> NoError]
    ELSE [ok |-> FALSE, value |-> 0, error |-> ValidationError(errors[1])]

\* validation.ts 16-20: z.number().int().min(1, ..).max(65535, ..)
portSchema(x) ==
  IF x.t = "undefined" THEN <<"Required">>
  ELSE IF x.t = "string" THEN <<"Expected number, received string">>
  ELSE IF x.t = "nan" THEN <<"Expected number, received nan">>
  ELSE (IF x.t = "float" THEN <<"Expected integer, received float">> ELSE <<>>)
       \o (IF x.v < 1 THEN <<"Port must be greater than 0">> ELSE <<>>)
       \o (IF x.v > 65535 \/ (x.t = "float" /\ x.v = 65535)
             THEN <<"Port must be less than 65536">> ELSE <<>>)

\* validation.ts 47-56
validatePort(port) ==
  LET errors == portSchema(port) IN
  IF errors = <<>>
    THEN [ok |-> TRUE, value |-> port.v, error |-> NoError]
    ELSE [ok |-> FALSE, value |-> 0, error |-> ValidationError(errors[1])]

\* the values validatePort is applied to on its own
PortValues ==
  {JsInt(v) : v \in {-1, 0, 1, 5600, 65535, 65536}}
    \cup {JsFloat(80), JsNaN, JsString, NoArg}

\* ---- the configuration (config/index.ts) --------------------------------
Undefined == [t |-> "undefined", v |-> <<>>]
DefaultFanIp == <<"1","9","2",".","1","6","8",".","1",".","1","3">>
DefaultFanPort == <<"5","6","0","0">>

\* the values of FAN_IP and FAN_PORT in the environment
EnvFanIps ==
  {Undefined} \cup
  {JsStr(s) : s \in { <<>>,
                      DefaultFanIp,
                      <<"0",".","0",".","0",".","0">>,
                      <<"2","5","6",".","1",".","1",".","1">>,
                      <<"1",".","2",".","3",".","4","/","2","4">>,
                      <<":",":","1">> }}
EnvFanPorts ==
  {Undefined} \cup
  {JsStr(s) : s \in { <<"1">>,
                      <<"6","5","5","3","5">>,
                      <<"0">>,
                      <<"6","5","5","3","6">>,
                      <<"-","1">>,
                      <<"a","b","c">>,
                      <<"1","2",".","5">> }}

\* a || b for strings: undefined and the empty string are falsy
OrDefault(x, default) == IF x.t = "undefined" \/ x.v = <<>> THEN default ELSE x.v

\* parseInt(s, 10): an optional sign, then the longest run of digits; NaN
\* when there is no digit. (No string here starts with white space.)
ParseInt(s) ==
  LET signed == Len(s) >= 1 /\ s[1] \in {"-", "+"}
      body == IF signed THEN Tail(s) ELSE s
      k == CHOOSE k \in 0..Len(body) :
             /\ \A i \in 1..k : body[i] \in Digits
             /\ k = Len(body) \/ body[k + 1] \notin Digits
      n == DecValue(SubSeq(body, 1, k))
  IN  IF k = 0 THEN JsNaN
      ELSE JsInt(IF signed /\ s[1] = "-" THEN 0 - n ELSE n)

\* part_002 27-29
envConfig(e) ==
  [FAN_IP |-> OrDefault(e.FAN_IP, DefaultFanIp),
   FAN_PORT |-> ParseInt(OrDefault(e.FAN_PORT, DefaultFanPort))]

\* Joi's string().ip(): an IPv4 address of four numbers from 0 to 255
\* without leading zeros, or an IPv6 address, each with an optional CIDR
\* suffix.
JoiIp(s) ==
  LET parts == Split(s, "/")
      addr == parts[1]
      octets == Split(addr, ".")
      v4 == /\ Len(octets) = 4
            /\ \A i \in 1..4 :
                 /\ IsDigits(octets[i]) /\ Len(octets[i]) <= 3
                 /\ DecValue(octets[i]) <= 255
                 /\ Len(octets[i]) > 1 => octets[i][1] # "0"
      Prefix(max) == Len(parts) = 2 => IsDigits(parts[2]) /\ Len(parts[2]) <= 3
                                        /\ DecValue(parts[2]) <= max
  IN  /\ Len(parts) <= 2
      /\ (v4 /\ Prefix(32)) \/ (ZodIPv6(addr) /\ Prefix(128))

\* Joi's number().port(): an integer from 0 to 65535
JoiPort(x) == x.t = "int" /\ x.v >= 0 /\ x.v <= 65535

ConfigurationError ==
  [name |-> "Error", code |-> "", statusCode |-> 0,
   message |-> "Configuration validation error"]

NoConfig == [FAN_IP |-> <<>>, FAN_PORT |-> JsNaN]

\* part_002 8-11 and 39-43: configSchema.validate(envConfig) for the endpoint
configSchema(c) ==
  IF JoiIp(c.FAN_IP) /\ JoiPort(c.FAN_PORT)
    THEN [ok |-> TRUE, value |-> c, error |-> NoError]
    ELSE [ok |-> FALSE, value |-> NoConfig, error |-> ConfigurationError]

\* index.ts: the names given to server.tool
ToolNames ==
  {"check-fan-health", "turn-on-fan", "turn-off-fan", "turn-on-led", "turn-off-led",
   "set-fan-speed"}

\* a validation function applied on its own: which one, to what, and what
\* it returned or threw
NoValidation ==
  [fn |-> "", input |-> NoArg, done |-> FALSE,
   output |-> [ok |-> FALSE, value |-> 0, error |-> NoError]]
Validate(fn, x) == [NoValidation EXCEPT !.fn = fn, !.input = x]

\* ---- UdpMessage (service.ts 23-27): a function on the fields present ----
LedMessage(b) == "led" :> b
PowerMessage(b) == "power" :> b
SpeedMessage(n) == "speed" :> n
NoMessage == <<>>

\* JSON.stringify writing the fields that are absent as null
JSONStringifyWithNulls(msg) ==
  LET Field(k) ==
        IF k \in DOMAIN msg
          THEN <<k, IF k = "speed" THEN ToString(msg[k])
                    ELSE IF msg[k] THEN "true" ELSE "false">>
          ELSE <<k, "null">>
  IN  <<Field("led"), Field("power"), Field("speed")>>

\* service.ts 69: JSON.stringify(message), the text of the datagram as the
\* list of its members <<name, value text>>; a field that is absent leaves
\* no member.
JSONStringify(msg) ==
  LET Field(k) ==
        IF k \in DOMAIN msg
          THEN << <<k, IF k = "speed" THEN ToString(msg[k])
                       ELSE IF msg[k] THEN "true" ELSE "false">> >>
          ELSE <<>>
  IN  Field("led") \o Field("power") \o Field("speed")

\* ---- the fan ---------------------------------------------------------------
\* The state of the fan that the command datagrams set (service.ts 102-176:
\* led by turnOnLed and turnOffLed, power by turnOnFan and turnOffFan, speed
\* by setFanSpeed).
DeviceStates == [led : BOOLEAN, power : BOOLEAN, speed : 1..6]

DatagramValue(text) ==
  CASE text = "true" -> TRUE
    [] text = "false" -> FALSE
    [] text \in {"1", "2", "3", "4", "5", "6"} -> DecValue(<<text>>)

\* the state of the fan after the datagram has been delivered to it: every
\* member of the datagram sets its field
RECURSIVE Deliver(_, _)
Deliver(d, datagram) ==
  IF datagram = <<>> THEN d
  ELSE Deliver([d EXCEPT ![datagram[1][1]] = DatagramValue(datagram[1][2])],
               Tail(datagram))

\* ---- results of the facade operations -----------------------------------
NoResult == [kind |-> "none", error |-> NoError, status |-> "", details |-> <<>>]
Returned == [kind |-> "returned", error |-> NoError, status |-> "", details |-> <<>>]
Threw(e) == [kind |-> "threw", error |-> e, status |-> "", details |-> <<>>]
\* service.ts 190 and 195-198; details is the string as the list of its parts
Healthy ==
  [kind |-> "returned", error |-> NoError, status |-> "healthy",
   details |-> <<"Fan is responding to UDP messages">>]
Unhealthy(e) ==
  [kind |-> "returned", error |-> NoError, status |-> "unhealthy",
   details |-> <<"Fan is not responding: ", e.message>>]

RECURSIVE Pow2(_)
Pow2(n) == IF n = 0 THEN 1 ELSE 2 * Pow2(n - 1)

\* the exponent taken from attempt instead of attempt - 1
DelayOffByOne(k) == baseDelay * Pow2(k)

\* service.ts 52
Delay(k) == baseDelay * Pow2(k - 1)

\* ---- the events an operation logs (the messages of its logger calls) ----
\* "started", "succeeded" and "failed" stand for the messages of the facade
\* operation, which differ from one operation to the other (service.ts 104,
\* 106 and 108 in turnOnLed).
EventNames ==
  {"started", "succeeded", "failed", "Invalid fan speed provided",
   "Sending UDP message",
   "Operation failed, retrying", "Max retry attempts exceeded",
   "Failed to send UDP message after retries"}

NoEvents == [e \in EventNames |-> 0]

\* the log l after the logger calls with the messages evs (the two debug
\* lines of the send callback, service.ts 82 and 85, are not counted)
LogAdd(l, evs) ==
  [e \in EventNames |-> l[e] + Cardinality({i \in 1..Len(evs) : evs[i] = e})]

VARIABLES
  maxRetries,    \* config.UDP_RETRY_ATTEMPTS
  socketState,   \* the handle of client: "open" or "closed"
  sockets,       \* number of dgram.createSocket calls
  closeCount,    \* number of times the handle was actually closed
  cleanupCalls,  \* number of cleanup() calls
  cleanupRaised, \* some cleanup() call threw to its caller
  lastDatagram,  \* the datagram handed to the network last
  calls,         \* operations invoked so far
  pc,            \* per slot: "idle", "attempt", "backoff", "done"
  opName,        \* per slot: the facade operation running
  speedArg,      \* per slot: the argument of setFanSpeed
  message,       \* per slot: the UdpMessage being sent
  attempt,       \* per slot: withRetry's loop variable
  invocations,   \* per slot: calls of operation() in this withRetry
  sends,         \* per slot: calls of client.send in this operation
  writes,        \* per slot: datagrams of this operation handed to the network
  lateSends,     \* per slot: sends whose callback is still awaited although
                 \* their attempt has timed out
  staleTimers,   \* per slot: timeout timers still armed although their
                 \* attempt has settled
  delays,        \* per slot: the backoff delays waited for, in order
  lastError,     \* per slot: withRetry's lastError
  timeouts,      \* per slot: attempts of this operation ended by their timeout
  timerArmed,    \* per slot: the timeout timer of the current attempt is armed
  sendPending,   \* per slot: the send callback of the current attempt is due
  sendOutcome,   \* per slot: how sendUdpMessage ended: "none", "resolved", "rejected"
  sendError,     \* per slot: the error sendUdpMessage rejected with
  result,        \* per slot: what the facade operation gave its caller
  log,           \* per slot: how often the operation has logged each event
  tool,          \* per slot: the tool whose handler called the operation ("" when
                 \* the operation was called directly)
  validation,    \* a validation function applied on its own
  env,           \* process.env: FAN_IP and FAN_PORT
  config,        \* the configuration that config/index.ts exports
  phase,         \* how far the modules are loaded: "loading", "configured",
                 \* "service", "serving", or "aborted"
  tools,         \* the names registered with server.tool
  startupError,  \* the error that ended the loading
  loggerOk,      \* the calls of the logger return (they throw otherwise)
  listeners,     \* the listeners of SIGINT and of SIGTERM, in the order of
                 \* their registration: "service" (service.ts) and "main" (index.ts)
  transport,     \* the stdio transport: "none", "open" or "closed"
  exitCode       \* <<>> while the process runs, <<code>> once it has exited

boot == <<env, config, phase, tools, startupError>>
proc == <<listeners, transport, exitCode>>
host == <<validation, boot, loggerOk, proc>>
shared == <<maxRetries, socketState, sockets, closeCount, cleanupCalls, cleanupRaised,
           host>>
wire == <<lastDatagram, writes, lateSends, staleTimers>>
ops == <<calls, pc, opName, speedArg, tool, message, attempt, invocations, sends, delays,
         lastError, timeouts, timerArmed, sendPending, sendOutcome, sendError,
         result, log, tool>>
vars == <<shared, wire, ops>>

\* service.ts 8 (the socket), part_002 23 (the attempts), and no operation yet
InitIdle ==
  /\ maxRetries \in 1..MaxRetriesBound
  /\ closeCount = 0
  /\ cleanupCalls = 0
  /\ cleanupRaised = FALSE
  /\ lastDatagram = NoMessage
  /\ writes = [p \in Procs |-> 0]
  /\ lateSends = [p \in Procs |-> 0]
  /\ staleTimers = [p \in Procs |-> 0]
  /\ calls = 0
  /\ pc = [p \in Procs |-> "idle"]
  /\ opName = [p \in Procs |-> ""]
  /\ speedArg = [p \in Procs |-> NoArg]
  /\ message = [p \in Procs |-> NoMessage]
  /\ attempt = [p \in Procs |-> 0]
  /\ invocations = [p \in Procs |-> 0]
  /\ sends = [p \in Procs |-> 0]
  /\ delays = [p \in Procs |-> <<>>]
  /\ lastError = [p \in Procs |-> NoError]
  /\ timeouts = [p \in Procs |-> 0]
  /\ timerArmed = [p \in Procs |-> FALSE]
  /\ sendPending = [p \in Procs |-> FALSE]
  /\ sendOutcome = [p \in Procs |-> "none"]
  /\ sendError = [p \in Procs |-> NoError]
  /\ result = [p \in Procs |-> NoResult]
  /\ log = [p \in Procs |-> NoEvents]
  /\ tool = [p \in Procs |-> ""]

\* service.ts 8: the socket is created
InitService ==
  /\ InitIdle
  /\ socketState = "open"
  /\ sockets = 1

\* the modules are loaded with the default endpoint and the tools registered
InitServing ==
  /\ env = [FAN_IP |-> Undefined, FAN_PORT |-> Undefined]
  /\ config = configSchema(envConfig(env)).value
  /\ phase = "serving"
  /\ tools = ToolNames
  /\ startupError = NoError

\* service.ts 216-226 has registered its listeners, and main() has connected
\* the server and registered its own (index.ts 259-305)
InitConnected ==
  /\ listeners = <<"service", "main">>
  /\ transport = "open"
  /\ exitCode = <<>>

Init ==
  /\ InitService
  /\ InitServing
  /\ validation = NoValidation
  /\ loggerOk = TRUE
  /\ InitConnected

\* ---- the retry wrapper and the transport --------------------------------

\* checkFanHealth rethrowing like the commands
FacadeResultRethrows(name, outcome, error) ==
  IF outcome = "resolved"
    THEN (IF name = "checkFanHealth" THEN Healthy ELSE Returned)
    ELSE Threw(error)

\* What a facade operation makes of the way sendUdpMessage ended:
\* the five commands rethrow (service.ts 107-112), checkFanHealth turns
\* the failure into a value (service.ts 183-199).
FacadeResult(name, outcome, error) ==
  IF name = "checkFanHealth"
    THEN (IF outcome = "resolved" THEN Healthy ELSE Unhealthy(error))
    ELSE (IF outcome = "resolved" THEN Returned ELSE Threw(error))

\* The operation of slot p ends: sendUdpMessage resolved or rejected with
\* error (service.ts 92-98 rethrows), and the facade hands on the result.
Settle(p, outcome, error) ==
  /\ pc' = [pc EXCEPT ![p] = "done"]
  /\ sendOutcome' = [sendOutcome EXCEPT ![p] = outcome]
  /\ sendError' = [sendError EXCEPT ![p] = error]
  /\ result' = [result EXCEPT ![p] = FacadeResult(opName'[p], outcome, error)]

\* the test for the last attempt one attempt late
ExhaustedOffByOne(k) == k = maxRetries + 1

\* service.ts 43: the test for the last attempt
Exhausted(k) == k = maxRetries

\* service.ts 43-58 and 92-98, and the catch block of the facade operation:
\* what is logged when attempt k has failed
CaughtEvents(k) ==
  IF Exhausted(k)
    THEN <<"Max retry attempts exceeded", "Failed to send UDP message after retries",
           "failed">>
    ELSE <<"Operation failed, retrying">>

\* the catch block rethrowing the error of the last attempt
CaughtRethrows(p, k, error) ==
  /\ lastError' = [lastError EXCEPT ![p] = error]
  /\ IF k = maxRetries
       THEN /\ pc' = [pc EXCEPT ![p] = "done"]
            /\ sendOutcome' = [sendOutcome EXCEPT ![p] = "rejected"]
            /\ sendError' = [sendError EXCEPT ![p] = error]
            /\ result' = [result EXCEPT ![p] =
                            IF opName'[p] = "checkFanHealth"
                              THEN Unhealthy(error) ELSE Threw(error)]
            /\ delays' = delays
       ELSE /\ pc' = [pc EXCEPT ![p] = "backoff"]
            /\ delays' = [delays EXCEPT ![p] = Append(@, baseDelay * Pow2(k - 1))]
            /\ UNCHANGED <<sendOutcome, sendError, result>>

\* the catch block keeping one backoff timeline for all operations
CaughtSharedBackoff(p, k, error) ==
  /\ lastError' = [lastError EXCEPT ![p] = error]
  /\ IF Exhausted(k)
       THEN /\ Settle(p, "rejected", NetworkError(ERROR_MESSAGES("RETRY_EXHAUSTED")))
            /\ delays' = delays
       ELSE /\ pc' = [pc EXCEPT ![p] = "backoff"]
            /\ delays' = [q \in Procs |->
                            IF q = p \/ pc[q] \in {"attempt", "backoff"}
                              THEN Append(delays[q], Delay(k)) ELSE delays[q]]
            /\ UNCHANGED <<sendOutcome, sendError, result>>

\* service.ts 40-61: the catch block of withRetry for attempt k
Caught(p, k, error) ==
  /\ lastError' = [lastError EXCEPT ![p] = error]
  /\ IF Exhausted(k)
       THEN /\ Settle(p, "rejected", NetworkError(ERROR_MESSAGES("RETRY_EXHAUSTED")))
            /\ delays' = delays
       ELSE /\ pc' = [pc EXCEPT ![p] = "backoff"]
            /\ delays' = [delays EXCEPT ![p] = Append(@, Delay(k))]
            /\ UNCHANGED <<sendOutcome, sendError, result>>

\* the loop going on after a successful attempt
ResolvedKeepsRetrying(p) ==
  /\ pc' = [pc EXCEPT ![p] = "backoff"]
  /\ delays' = [delays EXCEPT ![p] = Append(@, baseDelay * Pow2(attempt[p] - 1))]
  /\ UNCHANGED <<lastError, sendOutcome, sendError, result>>

\* service.ts 39: return await operation() when the promise resolves
Resolved(p) ==
  /\ Settle(p, "resolved", NoError)
  /\ UNCHANGED <<delays, lastError>>

\* operation() without the timeout timer
operationWithoutTimeout(p, k) ==
  /\ attempt' = [attempt EXCEPT ![p] = k]
  /\ invocations' = [invocations EXCEPT ![p] = @ + 1]
  /\ sends' = [sends EXCEPT ![p] = @ + 1]
  /\ UNCHANGED staleTimers
  /\ IF socketState = "closed"
       THEN /\ timerArmed' = [timerArmed EXCEPT ![p] = FALSE]
            /\ sendPending' = [sendPending EXCEPT ![p] = FALSE]
            /\ lastError' = [lastError EXCEPT ![p] = NotRunningError]
            /\ IF k = maxRetries
                 THEN /\ pc' = [pc EXCEPT ![p] = "done"]
                      /\ sendOutcome' = [sendOutcome EXCEPT ![p] = "rejected"]
                      /\ sendError' = [sendError EXCEPT ![p] =
                             NetworkError(ERROR_MESSAGES("RETRY_EXHAUSTED"))]
                      /\ result' = [result EXCEPT ![p] =
                             IF opName'[p] = "checkFanHealth"
                               THEN Unhealthy(NetworkError(ERROR_MESSAGES("RETRY_EXHAUSTED")))
                               ELSE Threw(NetworkError(ERROR_MESSAGES("RETRY_EXHAUSTED")))]
                      /\ delays' = delays
                 ELSE /\ pc' = [pc EXCEPT ![p] = "backoff"]
                      /\ delays' = [delays EXCEPT ![p] = Append(@, baseDelay * Pow2(k - 1))]
                      /\ UNCHANGED <<sendOutcome, sendError, result>>
       ELSE /\ timerArmed' = [timerArmed EXCEPT ![p] = FALSE]
            /\ sendPending' = [sendPending EXCEPT ![p] = TRUE]
            /\ pc' = [pc EXCEPT ![p] = "attempt"]
            /\ UNCHANGED <<delays, lastError, sendOutcome, sendError, result>>

\* operation() calling client.send a second time for the same attempt
operationSendsTwice(p, k) ==
  /\ attempt' = [attempt EXCEPT ![p] = k]
  /\ invocations' = [invocations EXCEPT ![p] = @ + 1]
  /\ sends' = [sends EXCEPT ![p] = @ + 2]
  /\ IF socketState = "closed"
       THEN /\ staleTimers' = [staleTimers EXCEPT ![p] = @ + 1]
            /\ timerArmed' = [timerArmed EXCEPT ![p] = FALSE]
            /\ sendPending' = [sendPending EXCEPT ![p] = FALSE]
            /\ Caught(p, k, NotRunningError)
       ELSE /\ timerArmed' = [timerArmed EXCEPT ![p] = TRUE]
            /\ sendPending' = [sendPending EXCEPT ![p] = TRUE]
            /\ pc' = [pc EXCEPT ![p] = "attempt"]
            /\ UNCHANGED <<staleTimers, delays, lastError, sendOutcome, sendError,
                           result>>

\* operation() whose client.send does not throw on a closed socket
operationIgnoresClose(p, k) ==
  /\ attempt' = [attempt EXCEPT ![p] = k]
  /\ invocations' = [invocations EXCEPT ![p] = @ + 1]
  /\ sends' = [sends EXCEPT ![p] = @ + 1]
  /\ timerArmed' = [timerArmed EXCEPT ![p] = TRUE]
  /\ sendPending' = [sendPending EXCEPT ![p] = TRUE]
  /\ pc' = [pc EXCEPT ![p] = "attempt"]
  /\ UNCHANGED <<staleTimers, delays, lastError, sendOutcome, sendError, result>>

\* service.ts 37-39 and 75-90: attempt k of slot p starts. operation() arms
\* the timeout timer and calls client.send; on a closed socket client.send
\* throws at once, which rejects the promise and leaves the timer armed.
operation(p, k) ==
  /\ attempt' = [attempt EXCEPT ![p] = k]
  /\ invocations' = [invocations EXCEPT ![p] = @ + 1]
  /\ sends' = [sends EXCEPT ![p] = @ + 1]
  /\ IF socketState = "closed"
       THEN /\ staleTimers' = [staleTimers EXCEPT ![p] = @ + 1]
            /\ timerArmed' = [timerArmed EXCEPT ![p] = FALSE]
            /\ sendPending' = [sendPending EXCEPT ![p] = FALSE]
            /\ Caught(p, k, NotRunningError)
       ELSE /\ timerArmed' = [timerArmed EXCEPT ![p] = TRUE]
            /\ sendPending' = [sendPending EXCEPT ![p] = TRUE]
            /\ pc' = [pc EXCEPT ![p] = "attempt"]
            /\ UNCHANGED <<staleTimers, delays, lastError, sendOutcome, sendError,
                           result>>

\* A new operation takes the first idle slot (the slots are interchangeable).
FreeSlot(p) == pc[p] = "idle" /\ \A q \in Procs : q < p => pc[q] # "idle"

\* the call held back while another operation waits between two attempts
CallBlockedByBackoff(p, name, arg) ==
  /\ FreeSlot(p)
  /\ \A q \in Procs : pc[q] # "backoff"
  /\ calls < MaxCalls
  /\ calls' = calls + 1
  /\ opName' = [opName EXCEPT ![p] = name]
  /\ speedArg' = [speedArg EXCEPT ![p] = arg]

\* The call of the facade operation name with argument arg
Call(p, name, arg) ==
  /\ FreeSlot(p)
  /\ calls < MaxCalls
  /\ calls' = calls + 1
  /\ opName' = [opName EXCEPT ![p] = name]
  /\ speedArg' = [speedArg EXCEPT ![p] = arg]

\* service.ts 68-91: sendUdpMessage(msg) up to its first await, which is the
\* first attempt of withRetry. The facade operation has logged its start
\* (service.ts 104), sendUdpMessage logs once (service.ts 71), and the catch
\* blocks log when client.send throws.
sendUdpMessage(p, msg) ==
  /\ message' = [message EXCEPT ![p] = msg]
  /\ operation(p, 1)
  /\ log' = [log EXCEPT ![p] =
               LogAdd(@, <<"started", "Sending UDP message">>
                         \o (IF socketState = "closed" THEN CaughtEvents(1) ELSE <<>>))]
  /\ UNCHANGED <<shared, lastDatagram, writes, lateSends, timeouts>>

\* ---- the facade operations ----------------------------------------------
\* what a call of the logger throws when the logger fails
LoggerError ==
  [name |-> "Error", code |-> "", statusCode |-> 0, message |-> "logger failed"]

\* service.ts 104 and 108-111 (and the like in the other operations): the
\* first logger call in the try block throws, and so does the logger call
\* in the catch block, whose error is what the caller gets.
LoggerThrows(p) ==
  /\ pc' = [pc EXCEPT ![p] = "done"]
  /\ result' = [result EXCEPT ![p] = Threw(LoggerError)]
  /\ UNCHANGED <<shared, wire, message, attempt, invocations, sends, delays,
                 lastError, timeouts, timerArmed, sendPending, sendOutcome,
                 sendError, log>>

\* service.ts 102-113
turnOnLed(p) ==
  /\ Call(p, "turnOnLed", NoArg)
  /\ IF loggerOk THEN sendUdpMessage(p, LedMessage(TRUE)) ELSE LoggerThrows(p)

\* service.ts 115-126
turnOffLed(p) ==
  /\ Call(p, "turnOffLed", NoArg)
  /\ IF loggerOk THEN sendUdpMessage(p, LedMessage(FALSE)) ELSE LoggerThrows(p)

\* service.ts 129-140
turnOnFan(p) ==
  /\ Call(p, "turnOnFan", NoArg)
  /\ IF loggerOk THEN sendUdpMessage(p, PowerMessage(TRUE)) ELSE LoggerThrows(p)

\* service.ts 142-153
turnOffFan(p) ==
  /\ Call(p, "turnOffFan", NoArg)
  /\ IF loggerOk THEN sendUdpMessage(p, PowerMessage(FALSE)) ELSE LoggerThrows(p)

\* service.ts 156-176
setFanSpeed(p, speed) ==
  /\ Call(p, "setFanSpeed", speed)
  /\ LET validated == validateFanSpeed(speed) IN
     IF ~loggerOk THEN LoggerThrows(p)
     ELSE IF validated.ok
       THEN sendUdpMessage(p, SpeedMessage(validated.value))
       ELSE /\ pc' = [pc EXCEPT ![p] = "done"]
            /\ result' = [result EXCEPT ![p] = Threw(validated.error)]
            /\ log' = [log EXCEPT ![p] = LogAdd(@, <<"Invalid fan speed provided">>)]
            /\ UNCHANGED <<shared, wire, message, attempt, invocations, sends,
                           delays, lastError, timeouts, timerArmed, sendPending,
                           sendOutcome, sendError>>

\* service.ts 179-200
checkFanHealth(p) ==
  /\ Call(p, "checkFanHealth", NoArg)
  /\ IF loggerOk THEN sendUdpMessage(p, LedMessage(FALSE)) ELSE LoggerThrows(p)

\* ---- the tools (index.ts, kept in errors.ts 55-340) -------------------------
FanControlError(msg) ==
  [name |-> "FanControlError", code |-> "FAN_CONTROL_ERROR", statusCode |-> 500,
   message |-> msg]

\* errors.ts 2-33: the classes that extend FanControlError
FanControlErrors ==
  {"FanControlError", "ValidationError", "NetworkError", "ConfigurationError"}

\* the schema of set-fan-speed without its upper bound
speedToolSchemaNoMax(speed) == speed.t = "int" /\ speed.v >= 1

\* errors.ts 222-226: the schema the arguments of set-fan-speed must pass
\* before the handler is called
speedToolSchema(speed) == speed.t = "int" /\ speed.v >= 1 /\ speed.v <= 6

NoToolResult == [kind |-> "none", text |-> <<>>, error |-> NoError]
ToolText(text) == [kind |-> "text", text |-> text, error |-> NoError]
ToolThrew(e) == [kind |-> "threw", text |-> <<>>, error |-> e]
\* the arguments did not pass the schema of the tool: the handler is not called
InvalidParams == [kind |-> "invalid-params", text |-> <<>>, error |-> NoError]

\* the text a handler returns when its operation has returned
SuccessText(name, speed, r) ==
  CASE name = "check-fan-health" -> <<"Fan status: ", r.status, ". ">> \o r.details
    [] name = "turn-on-fan" -> <<"Fan has been turned on successfully">>
    [] name = "turn-off-fan" -> <<"Fan has been turned off successfully">>
    [] name = "turn-on-led" -> <<"LED has been turned on successfully">>
    [] name = "turn-off-led" -> <<"LED has been turned off successfully">>
    [] name = "set-fan-speed" ->
         <<"Fan speed has been set to ", ToString(speed.v), " successfully">>

\* errors.ts 82-256: what the handler of tool name gives when its facade
\* operation has ended with r. The catch block logs first; check-fan-health
\* rethrows what it caught, the other handlers rethrow a FanControlError and
\* wrap every other error into one (its message is the caught message after
\* a prefix that names the tool).
handler(name, speed, r) ==
  IF r.kind = "returned" THEN ToolText(SuccessText(name, speed, r))
  ELSE IF ~loggerOk THEN ToolThrew(LoggerError)
  ELSE IF name = "check-fan-health" \/ r.error.name \in FanControlErrors
    THEN ToolThrew(r.error)
    ELSE ToolThrew(FanControlError(r.error.message))

\* what the tool call of slot p has given to the server
ToolResult(p) ==
  IF tool[p] = "" \/ pc[p] # "done" THEN NoToolResult
  ELSE IF opName[p] = "" THEN InvalidParams
  ELSE handler(tool[p], speedArg[p], result[p])

\* the server calls the handler of tool name
ToolCall(p, name) == tool' = [tool EXCEPT ![p] = name]

\* errors.ts 82-101
CheckFanHealthTool(p) == ToolCall(p, "check-fan-health") /\ checkFanHealth(p)

\* errors.ts 104-130
TurnOnFanTool(p) == ToolCall(p, "turn-on-fan") /\ turnOnFan(p)

\* errors.ts 132-158
TurnOffFanTool(p) == ToolCall(p, "turn-off-fan") /\ turnOffFan(p)

\* errors.ts 161-187
TurnOnLedTool(p) == ToolCall(p, "turn-on-led") /\ turnOnLed(p)

\* errors.ts 189-215
TurnOffLedTool(p) == ToolCall(p, "turn-off-led") /\ turnOffLed(p)

\* errors.ts 218-256: the arguments are checked against the schema, and the
\* handler is called with those that pass
SetFanSpeedTool(p, speed) ==
  /\ ToolCall(p, "set-fan-speed")
  /\ IF speedToolSchema(speed)
       THEN setFanSpeed(p, speed)
       ELSE /\ Call(p, "", speed)
            /\ pc' = [pc EXCEPT ![p] = "done"]
            /\ UNCHANGED <<shared, wire, message, attempt, invocations, sends,
                           delays, lastError, timeouts, timerArmed, sendPending,
                           sendOutcome, sendError, result, log>>

\* ---- callbacks and timers -----------------------------------------------

\* service.ts 80-88, err absent: the datagram of the current attempt is
\* handed to the network and the callback runs. dgram reports success only
\* for a handle that is still open.
SendCallbackOk(p) ==
  /\ pc[p] = "attempt"
  /\ sendPending[p]
  /\ socketState = "open"
  /\ timerArmed' = [timerArmed EXCEPT ![p] = FALSE]
  /\ sendPending' = [sendPending EXCEPT ![p] = FALSE]
  /\ writes' = [writes EXCEPT ![p] = @ + 1]
  /\ lastDatagram' = JSONStringify(message[p])
  /\ UNCHANGED <<opName, speedArg, tool>>
  /\ Resolved(p)
  /\ log' = [log EXCEPT ![p] = LogAdd(@, <<"UDP message sent successfully", "succeeded">>)]
  /\ UNCHANGED <<shared, lateSends, staleTimers, calls, message, attempt,
                 invocations, sends, timeouts>>

\* the send callback with an error leaving the timeout timer armed
SendCallbackErrKeepsTimer(p) ==
  /\ pc[p] = "attempt"
  /\ sendPending[p]
  /\ timerArmed' = timerArmed
  /\ sendPending' = [sendPending EXCEPT ![p] = FALSE]
  /\ UNCHANGED <<opName, speedArg, tool>>
  /\ Caught(p, attempt[p], NetworkError(ERROR_MESSAGES("UDP_SEND_FAILED")))
  /\ log' = [log EXCEPT ![p] = LogAdd(@, <<"UDP send error">> \o CaughtEvents(attempt[p]))]
  /\ UNCHANGED <<shared, wire, calls, message, attempt, invocations, sends,
                 timeouts>>

\* service.ts 80-84, err present
SendCallbackErr(p) ==
  /\ pc[p] = "attempt"
  /\ sendPending[p]
  /\ timerArmed' = [timerArmed EXCEPT ![p] = FALSE]
  /\ sendPending' = [sendPending EXCEPT ![p] = FALSE]
  /\ UNCHANGED <<opName, speedArg, tool>>
  /\ Caught(p, attempt[p], NetworkError(ERROR_MESSAGES("UDP_SEND_FAILED")))
  /\ log' = [log EXCEPT ![p] = LogAdd(@, <<"UDP send error">> \o CaughtEvents(attempt[p]))]
  /\ UNCHANGED <<shared, wire, calls, message, attempt, invocations, sends,
                 timeouts>>

\* the timeout timer firing without rejecting the attempt
TimeoutKeepsWaiting(p) ==
  /\ pc[p] = "attempt"
  /\ timerArmed[p]
  /\ timerArmed' = [timerArmed EXCEPT ![p] = FALSE]
  /\ timeouts' = [timeouts EXCEPT ![p] = @ + 1]
  /\ UNCHANGED <<shared, wire, calls, pc, opName, speedArg, tool, message, attempt,
                 invocations, sends, delays, lastError, sendPending, sendOutcome,
                 sendError, result, log>>

\* service.ts 76-78: the timeout timer of the current attempt fires; the
\* send itself is not cancelled, its callback may still come (the model
\* follows at most MaxLate such sends of an operation, the callback of any
\* further one never comes).
Timeout(p) ==
  /\ pc[p] = "attempt"
  /\ timerArmed[p]
  /\ timerArmed' = [timerArmed EXCEPT ![p] = FALSE]
  /\ sendPending' = [sendPending EXCEPT ![p] = FALSE]
  /\ lateSends' = [lateSends EXCEPT ![p] = IF @ < MaxLate THEN @ + 1 ELSE @]
  /\ timeouts' = [timeouts EXCEPT ![p] = @ + 1]
  /\ UNCHANGED <<opName, speedArg, tool>>
  /\ Caught(p, attempt[p], NetworkError(ERROR_MESSAGES("TIMEOUT")))
  /\ log' = [log EXCEPT ![p] = LogAdd(@, CaughtEvents(attempt[p]))]
  /\ UNCHANGED <<shared, lastDatagram, writes, staleTimers, calls, message,
                 attempt, invocations, sends>>

\* service.ts 60, then 37 (attempt++ and the loop test) and 64
BackoffElapsed(p) ==
  /\ pc[p] = "backoff"
  /\ UNCHANGED <<opName, speedArg, tool>>
  /\ IF attempt[p] + 1 <= maxRetries
       THEN /\ operation(p, attempt[p] + 1)
            /\ log' = [log EXCEPT ![p] =
                         LogAdd(@, IF socketState = "closed"
                                     THEN CaughtEvents(attempt[p] + 1) ELSE <<>>)]
       ELSE /\ Settle(p, "rejected", lastError[p])
            /\ log' = [log EXCEPT ![p] =
                         LogAdd(@, <<"Failed to send UDP message after retries",
                                     "failed">>)]
            /\ attempt' = [attempt EXCEPT ![p] = @ + 1]
            /\ UNCHANGED <<invocations, sends, staleTimers, delays, lastError,
                           timerArmed, sendPending>>
  /\ UNCHANGED <<shared, lastDatagram, writes, lateSends, calls, message,
                 timeouts>>

\* the callback of a send whose attempt has timed out resolving the operation
LateCallbackOkResolves(p) ==
  /\ lateSends[p] > 0
  /\ socketState = "open"
  /\ lateSends' = [lateSends EXCEPT ![p] = @ - 1]
  /\ writes' = [writes EXCEPT ![p] = @ + 1]
  /\ lastDatagram' = JSONStringify(message[p])
  /\ timerArmed' = [timerArmed EXCEPT ![p] = FALSE]
  /\ sendPending' = [sendPending EXCEPT ![p] = FALSE]
  /\ UNCHANGED <<opName, speedArg, tool>>
  /\ Settle(p, "resolved", NoError)
  /\ log' = [log EXCEPT ![p] = LogAdd(@, <<"UDP message sent successfully", "succeeded">>)]
  /\ UNCHANGED <<shared, staleTimers, calls, message, attempt, invocations,
                 sends, delays, lastError, timeouts>>

\* service.ts 80-88 for an attempt that has timed out already: clearTimeout,
\* resolve and reject have no effect any more, but the datagram goes out
\* and the callback logs.
LateCallbackOk(p) ==
  /\ lateSends[p] > 0
  /\ socketState = "open"
  /\ lateSends' = [lateSends EXCEPT ![p] = @ - 1]
  /\ writes' = [writes EXCEPT ![p] = @ + 1]
  /\ lastDatagram' = JSONStringify(message[p])
  /\ log' = [log EXCEPT ![p] = LogAdd(@, <<"UDP message sent successfully">>)]
  /\ UNCHANGED <<shared, staleTimers, calls, pc, opName, speedArg, tool, message, attempt,
                 invocations, sends, delays, lastError, timeouts, timerArmed,
                 sendPending, sendOutcome, sendError, result>>

\* service.ts 80-84 for an attempt that has timed out already
LateCallbackErr(p) ==
  /\ lateSends[p] > 0
  /\ lateSends' = [lateSends EXCEPT ![p] = @ - 1]
  /\ log' = [log EXCEPT ![p] = LogAdd(@, <<"UDP send error">>)]
  /\ UNCHANGED <<shared, lastDatagram, writes, staleTimers, calls, pc, opName, speedArg, tool, message, attempt,
                 invocations, sends, delays, lastError, timeouts, timerArmed,
                 sendPending, sendOutcome, sendError, result>>

\* service.ts 76-78 for an attempt that was rejected by the throw of
\* client.send: the timer fires and its reject has no effect.
StaleTimerFires(p) ==
  /\ staleTimers[p] > 0
  /\ staleTimers' = [staleTimers EXCEPT ![p] = @ - 1]
  /\ UNCHANGED <<shared, lastDatagram, writes, lateSends, ops>>

\* cleanup without its try/catch: the throw of client.close() escapes
cleanupWithoutCatch ==
  /\ cleanupCalls < MaxCleanups
  /\ cleanupCalls' = cleanupCalls + 1
  /\ IF socketState = "open"
       THEN /\ socketState' = "closed"
            /\ closeCount' = closeCount + 1
            /\ cleanupRaised' = cleanupRaised
       ELSE /\ UNCHANGED <<socketState, closeCount>>
            /\ cleanupRaised' = TRUE
  /\ UNCHANGED <<maxRetries, sockets, host, wire, ops>>

\* cleanup closing the handle whether or not it is still open
cleanupClosesAgain ==
  /\ cleanupCalls < MaxCleanups
  /\ cleanupCalls' = cleanupCalls + 1
  /\ socketState' = "closed"
  /\ closeCount' = closeCount + 1
  /\ UNCHANGED <<maxRetries, sockets, host, cleanupRaised, wire, ops>>

\* service.ts 203-213: client.close() throws on a closed socket, and the
\* catch block keeps the error from the caller. When the logger fails,
\* logger.info throws before client.close() is reached and logger.error
\* throws out of the catch block.
closeClient ==
  /\ cleanupCalls' = cleanupCalls + 1
  /\ IF ~loggerOk
       THEN /\ UNCHANGED <<socketState, closeCount>>
            /\ cleanupRaised' = TRUE
       ELSE IF socketState = "open"
       THEN /\ socketState' = "closed"
            /\ closeCount' = closeCount + 1
            /\ cleanupRaised' = cleanupRaised
       ELSE /\ UNCHANGED <<socketState, closeCount>>
            /\ cleanupRaised' = cleanupRaised

\* cleanup() called on its own
cleanup ==
  /\ cleanupCalls < MaxCleanups
  /\ closeClient
  /\ UNCHANGED <<maxRetries, sockets, host, wire, ops>>

\* ---- signals and the end of the process -----------------------------------
Running == exitCode = <<>>

\* errors.ts 259-305: main() connects the server to the stdio transport and
\* then registers gracefulShutdown for SIGINT and SIGTERM
main ==
  /\ Running
  /\ phase = "serving"
  /\ transport = "none"
  /\ transport' = "open"
  /\ listeners' = Append(listeners, "main")
  /\ UNCHANGED <<maxRetries, socketState, sockets, closeCount, cleanupCalls,
                 cleanupRaised, validation, boot, loggerOk, exitCode, wire, ops>>

\* service.ts 216-226: the listener of service.ts: cleanup(), process.exit(0)
serviceSignal ==
  /\ closeClient
  /\ exitCode' = <<0>>
  /\ transport' = transport

\* errors.ts 282-301: cleanup(), transport.close(), process.exit(0). Neither
\* call throws, so the catch block with process.exit(1) is not entered.
gracefulShutdown ==
  /\ closeClient
  /\ transport' = "closed"
  /\ exitCode' = <<0>>

\* SIGINT or SIGTERM arrives (both have the same listeners): the listeners
\* run in the order of their registration, and process.exit in a listener
\* ends the process before the next one runs. (With a logger whose calls
\* throw the listener throws at its first line; that case is not followed.)
Signal ==
  /\ Running
  /\ loggerOk
  /\ listeners # <<>>
  /\ IF listeners[1] = "service" THEN serviceSignal ELSE gracefulShutdown
  /\ UNCHANGED <<maxRetries, sockets, validation, boot, loggerOk, listeners,
                 wire, ops>>

\* The caller of the facade operation (the tool handler) takes the result.
\* The slot is free again when the callbacks and timers that the operation
\* left behind have run.
Return(p) ==
  /\ pc[p] = "done"
  /\ lateSends[p] = 0
  /\ staleTimers[p] = 0
  /\ writes' = [writes EXCEPT ![p] = 0]
  /\ pc' = [pc EXCEPT ![p] = "idle"]
  /\ opName' = [opName EXCEPT ![p] = ""]
  /\ speedArg' = [speedArg EXCEPT ![p] = NoArg]
  /\ message' = [message EXCEPT ![p] = NoMessage]
  /\ attempt' = [attempt EXCEPT ![p] = 0]
  /\ invocations' = [invocations EXCEPT ![p] = 0]
  /\ sends' = [sends EXCEPT ![p] = 0]
  /\ delays' = [delays EXCEPT ![p] = <<>>]
  /\ lastError' = [lastError EXCEPT ![p] = NoError]
  /\ timeouts' = [timeouts EXCEPT ![p] = 0]
  /\ sendOutcome' = [sendOutcome EXCEPT ![p] = "none"]
  /\ sendError' = [sendError EXCEPT ![p] = NoError]
  /\ result' = [result EXCEPT ![p] = NoResult]
  /\ log' = [log EXCEPT ![p] = NoEvents]
  /\ tool' = [tool EXCEPT ![p] = ""]
  /\ UNCHANGED <<shared, lastDatagram, lateSends, staleTimers, calls,
                 timerArmed, sendPending>>

Next ==
  \/ \E p \in Procs : turnOnLed(p) /\ UNCHANGED tool
  \/ \E p \in Procs : turnOffLed(p) /\ UNCHANGED tool
  \/ \E p \in Procs : turnOnFan(p) /\ UNCHANGED tool
  \/ \E p \in Procs : turnOffFan(p) /\ UNCHANGED tool
  \/ \E p \in Procs : \E speed \in SpeedInputs : setFanSpeed(p, speed) /\ UNCHANGED tool
  \/ \E p \in Procs : checkFanHealth(p) /\ UNCHANGED tool
  \/ \E p \in Procs : SendCallbackOk(p)
  \/ \E p \in Procs : SendCallbackErr(p)
  \/ \E p \in Procs : Timeout(p)
  \/ \E p \in Procs : BackoffElapsed(p)
  \/ \E p \in Procs : LateCallbackOk(p)
  \/ \E p \in Procs : LateCallbackErr(p)
  \/ \E p \in Procs : StaleTimerFires(p)
  \/ cleanup
  \/ \E p \in Procs : Return(p)

Spec == Init /\ [][Next]_vars

\* Timers fire: the event loop runs every timer that stays due.
FairSpec ==
  /\ Spec
  /\ \A p \in Procs : WF_vars(Timeout(p)) /\ WF_vars(BackoffElapsed(p))

\* One operation at a time: the steps of slot 1 and cleanup.
SoloNext ==
  \/ turnOnLed(1) /\ UNCHANGED tool
  \/ turnOffLed(1) /\ UNCHANGED tool
  \/ turnOnFan(1) /\ UNCHANGED tool
  \/ turnOffFan(1) /\ UNCHANGED tool
  \/ \E speed \in SpeedInputs : setFanSpeed(1, speed) /\ UNCHANGED tool
  \/ checkFanHealth(1) /\ UNCHANGED tool
  \/ SendCallbackOk(1)
  \/ SendCallbackErr(1)
  \/ Timeout(1)
  \/ BackoffElapsed(1)
  \/ LateCallbackOk(1)
  \/ LateCallbackErr(1)
  \/ StaleTimerFires(1)
  \/ cleanup
  \/ Return(1)

SoloSpec == Init /\ [][SoloNext]_vars

\* Timers fire.
FairSolo ==
  /\ SoloSpec
  /\ WF_vars(Timeout(1))
  /\ WF_vars(BackoffElapsed(1))

\* The tools called one at a time.
ToolNext ==
  \/ CheckFanHealthTool(1)
  \/ TurnOnFanTool(1)
  \/ TurnOffFanTool(1)
  \/ TurnOnLedTool(1)
  \/ TurnOffLedTool(1)
  \/ \E speed \in SpeedInputs : SetFanSpeedTool(1, speed)
  \/ SendCallbackOk(1)
  \/ SendCallbackErr(1)
  \/ Timeout(1)
  \/ BackoffElapsed(1)
  \/ LateCallbackOk(1)
  \/ LateCallbackErr(1)
  \/ StaleTimerFires(1)
  \/ cleanup
  \/ Return(1)

ToolSpec == Init /\ [][ToolNext]_vars

\* The modules are loaded and main() is about to run.
InitShutdown ==
  /\ InitService
  /\ InitServing
  /\ validation = NoValidation
  /\ loggerOk = TRUE
  /\ listeners = <<"service">>
  /\ transport = "none"
  /\ exitCode = <<>>

\* a request for a tool arrives over the transport
ToolRequest ==
  \/ CheckFanHealthTool(1)
  \/ TurnOnFanTool(1)
  \/ TurnOffFanTool(1)
  \/ TurnOnLedTool(1)
  \/ TurnOffLedTool(1)
  \/ \E speed \in SpeedInputs : SetFanSpeedTool(1, speed)

\* a callback or a timer of the operation of slot 1 runs, or its handler
\* takes the result
Callback ==
  \/ SendCallbackOk(1)
  \/ SendCallbackErr(1)
  \/ Timeout(1)
  \/ BackoffElapsed(1)
  \/ LateCallbackOk(1)
  \/ LateCallbackErr(1)
  \/ StaleTimerFires(1)
  \/ Return(1)

\* The server from main() to the end of the process.
ShutdownNext ==
  \/ main
  \/ Signal
  \/ Running /\ transport = "open" /\ ToolRequest
  \/ Running /\ Callback

ShutdownSpec == InitShutdown /\ [][ShutdownNext]_vars

\* The service with a logger that works or one whose calls throw
InitLogger ==
  /\ InitService
  /\ InitServing
  /\ validation = NoValidation
  /\ loggerOk \in BOOLEAN
  /\ InitConnected

LoggerSpec == InitLogger /\ [][SoloNext]_vars

\* A speed-set in slot 1 and health checks issued while it runs.
DuoNext ==
  \/ \E speed \in SpeedInputs : setFanSpeed(1, speed) /\ UNCHANGED tool
  \/ checkFanHealth(2) /\ UNCHANGED tool
  \/ \E p \in {1, 2} : SendCallbackOk(p)
  \/ \E p \in {1, 2} : SendCallbackErr(p)
  \/ \E p \in {1, 2} : Timeout(p)
  \/ \E p \in {1, 2} : BackoffElapsed(p)
  \/ \E p \in {1, 2} : LateCallbackOk(p)
  \/ \E p \in {1, 2} : LateCallbackErr(p)
  \/ \E p \in {1, 2} : StaleTimerFires(p)
  \/ cleanup
  \/ \E p \in {1, 2} : Return(p)

DuoSpec == Init /\ [][DuoNext]_vars

\* ---- the validation functions applied on their own ----------------------
InitValidation ==
  /\ InitService
  /\ InitServing
  /\ \/ \E x \in SpeedValues : validation = Validate("validateFanSpeed", x)
     \/ \E x \in IpValues : validation = Validate("validateIpAddress", x)
     \/ \E x \in PortValues : validation = Validate("validatePort", x)
  /\ loggerOk = TRUE
  /\ InitConnected

\* validation.ts 25-34 applied to validation.input
ValidateFanSpeedStep ==
  /\ validation.fn = "validateFanSpeed"
  /\ ~validation.done
  /\ validation' = [validation EXCEPT !.done = TRUE,
                                       !.output = validateFanSpeed(validation.input)]
  /\ UNCHANGED <<maxRetries, socketState, sockets, closeCount, cleanupCalls,
                 cleanupRaised, boot, loggerOk, proc, wire, ops>>

\* validation.ts 36-45 applied to validation.input
ValidateIpAddressStep ==
  /\ validation.fn = "validateIpAddress"
  /\ ~validation.done
  /\ validation' = [validation EXCEPT !.done = TRUE,
                                       !.output = validateIpAddress(validation.input)]
  /\ UNCHANGED <<maxRetries, socketState, sockets, closeCount, cleanupCalls,
                 cleanupRaised, boot, loggerOk, proc, wire, ops>>

\* validation.ts 47-56 applied to validation.input
ValidatePortStep ==
  /\ validation.fn = "validatePort"
  /\ ~validation.done
  /\ validation' = [validation EXCEPT !.done = TRUE,
                                       !.output = validatePort(validation.input)]
  /\ UNCHANGED <<maxRetries, socketState, sockets, closeCount, cleanupCalls,
                 cleanupRaised, boot, loggerOk, proc, wire, ops>>

ValidationNext ==
  \/ ValidateFanSpeedStep
  \/ ValidateIpAddressStep
  \/ ValidatePortStep

ValidationSpec == InitValidation /\ [][ValidationNext]_vars

\* ---- the start of the process -------------------------------------------
\* Nothing is loaded yet; the environment holds some FAN_IP and FAN_PORT.
InitStartup ==
  /\ InitIdle
  /\ socketState = "none"
  /\ sockets = 0
  /\ validation = NoValidation
  /\ env \in [FAN_IP : EnvFanIps, FAN_PORT : EnvFanPorts]
  /\ config = NoConfig
  /\ phase = "loading"
  /\ tools = {}
  /\ startupError = NoError
  /\ loggerOk = TRUE
  /\ listeners = <<>>
  /\ transport = "none"
  /\ exitCode = <<>>

\* part_002 27-43: config/index.ts is evaluated
LoadConfig ==
  /\ phase = "loading"
  /\ LET validated == configSchema(envConfig(env)) IN
     /\ config' = validated.value
     /\ phase' = IF validated.ok THEN "configured" ELSE "aborted"
     /\ startupError' = validated.error
  /\ UNCHANGED <<maxRetries, socketState, sockets, closeCount, cleanupCalls,
                 cleanupRaised, validation, env, tools, loggerOk, proc, wire, ops>>

\* service.ts 8-20: service.ts is evaluated, which creates the socket and
\* validates the endpoint
LoadService ==
  /\ phase = "configured"
  /\ socketState' = "open"
  /\ sockets' = sockets + 1
  /\ LET ip == validateIpAddress(JsStr(config.FAN_IP))
         port == validatePort(config.FAN_PORT)
     IN  IF ip.ok /\ port.ok
           THEN /\ phase' = "service" /\ startupError' = startupError
                /\ listeners' = Append(listeners, "service")
           ELSE /\ phase' = "aborted"
                /\ startupError' = IF ip.ok THEN port.error ELSE ip.error
                /\ listeners' = listeners
  /\ UNCHANGED <<maxRetries, closeCount, cleanupCalls, cleanupRaised, validation,
                 env, config, tools, loggerOk, transport, exitCode, wire, ops>>

\* index.ts 82-256: the six server.tool calls
RegisterTools ==
  /\ phase = "service"
  /\ tools' = ToolNames
  /\ phase' = "serving"
  /\ UNCHANGED <<maxRetries, socketState, sockets, closeCount, cleanupCalls,
                 cleanupRaised, validation, env, config, startupError, loggerOk, proc,
                 wire, ops>>

StartupNext ==
  \/ LoadConfig
  \/ LoadService
  \/ RegisterTools
  \/ phase = "serving" /\ turnOnLed(1) /\ UNCHANGED tool
  \/ phase = "serving" /\ turnOffLed(1) /\ UNCHANGED tool
  \/ phase = "serving" /\ turnOnFan(1) /\ UNCHANGED tool
  \/ phase = "serving" /\ turnOffFan(1) /\ UNCHANGED tool
  \/ phase = "serving" /\ \E speed \in SpeedInputs : setFanSpeed(1, speed) /\ UNCHANGED tool
  \/ phase = "serving" /\ checkFanHealth(1) /\ UNCHANGED tool
  \/ SendCallbackOk(1)
  \/ SendCallbackErr(1)
  \/ Timeout(1)
  \/ BackoffElapsed(1)
  \/ LateCallbackOk(1)
  \/ LateCallbackErr(1)
  \/ StaleTimerFires(1)
  \/ phase = "serving" /\ cleanup
  \/ Return(1)

StartupSpec == InitStartup /\ [][StartupNext]_vars

TypeOK ==
  /\ maxRetries \in 1..MaxRetriesBound
  /\ socketState \in {"open", "closed"}
  /\ \A p \in Procs : pc[p] \in {"idle", "attempt", "backoff", "done"}

\* ---- the properties ------------------------------------------------------

Commands == {"turnOnLed", "turnOffLed", "turnOnFan", "turnOffFan", "setFanSpeed"}
RetriesExhausted ==
  [name |-> "NetworkError", code |-> "NETWORK_ERROR", statusCode |-> 503,
   message |-> "Maximum retry attempts exceeded"]
Failed(p) == pc[p] = "done" /\ sendOutcome[p] = "rejected"
Succeeded(p) == pc[p] = "done" /\ sendOutcome[p] = "resolved"
InFlight(p) == pc[p] \in {"attempt", "backoff"}

\* C1: an operation whose every attempt fails is invoked exactly maxRetries
\* times, never once more, and then fails with the retries-exhausted error.
C1_ExactlyMaxAttempts ==
  \A p \in Procs :
    /\ invocations[p] <= maxRetries
    /\ attempt[p] <= maxRetries
    /\ sendOutcome[p] = "rejected" =>
         /\ invocations[p] = maxRetries
         /\ attempt[p] = maxRetries
         /\ sendError[p] = RetriesExhausted

C1_Witness ==
  \E p \in Procs : Failed(p) /\ maxRetries = 3 /\ invocations[p] = 3

\* C2: when the send of attempt k reports success the operation returns in
\* that very step, after exactly k invocations and k-1 waits, and a returned
\* operation makes no further attempt and waits no further delay.
C2_SuccessStep ==
  \A p \in Procs :
    (/\ pc[p] = "attempt" /\ sendPending[p] /\ ~sendPending'[p]
     /\ writes'[p] = writes[p] + 1)
    => /\ Succeeded(p)'
       /\ result'[p].kind = "returned"
       /\ invocations'[p] = attempt[p]
       /\ Len(delays'[p]) = attempt[p] - 1
       /\ ~timerArmed'[p]

C2_NothingAfterSuccess ==
  \A p \in Procs :
    Succeeded(p) /\ pc'[p] # "idle"
    => /\ Succeeded(p)'
       /\ invocations'[p] = invocations[p]
       /\ sends'[p] = sends[p]
       /\ delays'[p] = delays[p]
       /\ attempt'[p] = attempt[p]

C2_ReturnsOnSuccess ==
  /\ [][C2_SuccessStep]_vars
  /\ [][C2_NothingAfterSuccess]_vars
  /\ [](\A p \in Procs : sendOutcome[p] = "resolved" =>
          pc[p] = "done" /\ invocations[p] = attempt[p])

C2_Witness ==
  \E p \in Procs : Succeeded(p) /\ attempt[p] = 2 /\ invocations[p] = 2

\* C3: the delays waited are baseDelay, then twice the one before, one
\* after each failed attempt but the last: strictly increasing, k-1 of them
\* before attempt k, none after the failure of the last attempt.
C3_Backoff ==
  \A p \in Procs :
    /\ \A i \in 1..Len(delays[p]) :
         /\ i = 1 => delays[p][i] = 100
         /\ i > 1 => delays[p][i] = 2 * delays[p][i - 1] /\ delays[p][i] > delays[p][i - 1]
    /\ pc[p] = "attempt" => Len(delays[p]) = attempt[p] - 1
    /\ pc[p] = "backoff" => Len(delays[p]) = attempt[p] /\ attempt[p] < maxRetries
    /\ Succeeded(p) => Len(delays[p]) = attempt[p] - 1
    /\ Failed(p) => Len(delays[p]) = maxRetries - 1

C3_Witness ==
  \E p \in Procs : Succeeded(p) /\ attempt[p] = 3 /\ delays[p] = <<100, 200>>

\* C4: setFanSpeed with a level that is not an integer in 1..6 fails with a
\* ValidationError in the step of the call, and that step makes no send, no
\* attempt, no wait and writes no datagram.
ValidLevel(x) == x.t = "int" /\ x.v >= 1 /\ x.v <= 6

C4_Rejected ==
  \A p \in Procs :
    opName[p] = "setFanSpeed" /\ ~ValidLevel(speedArg[p])
    => /\ pc[p] = "done"
       /\ result[p].kind = "threw"
       /\ result[p].error.name = "ValidationError"
       /\ sends[p] = 0 /\ invocations[p] = 0 /\ attempt[p] = 0
       /\ delays[p] = <<>> /\ writes[p] = 0
       /\ ~timerArmed[p] /\ ~sendPending[p]

C4_CallStep ==
  \A p \in Procs :
    opName[p] = "" /\ opName'[p] = "setFanSpeed" /\ ~ValidLevel(speedArg'[p])
    => /\ sends' = sends
       /\ writes' = writes
       /\ lastDatagram' = lastDatagram
       /\ timerArmed' = timerArmed
       /\ sendPending' = sendPending

C4_InvalidSpeedNoSend == [](C4_Rejected) /\ [][C4_CallStep]_vars

C4_Witness ==
  \E p \in Procs :
    /\ opName[p] = "setFanSpeed" /\ speedArg[p] = JsInt(7)
    /\ result[p].error.name = "ValidationError" /\ sends[p] = 0
    /\ lastDatagram # NoMessage

\* C5: checkFanHealth always returns a value: healthy exactly when the send
\* path succeeded, otherwise unhealthy with the description of the failure.
C5_HealthNeverRaises ==
  \A p \in Procs :
    opName[p] = "checkFanHealth" /\ pc[p] = "done"
    => /\ result[p].kind = "returned"
       /\ result[p].status \in {"healthy", "unhealthy"}
       /\ result[p].status = "healthy" <=> sendOutcome[p] = "resolved"
       /\ result[p].status = "unhealthy" <=> sendOutcome[p] = "rejected"
       /\ sendOutcome[p] = "rejected" =>
            /\ Len(result[p].details) = 2
            /\ result[p].details[2] = sendError[p].message
            /\ result[p].details[2] # ""

C5_Witness ==
  \E p \in Procs :
    /\ opName[p] = "checkFanHealth" /\ pc[p] = "done"
    /\ result[p].status = "unhealthy"
    /\ lastError[p].code = "ERR_SOCKET_DGRAM_NOT_RUNNING"

\* C6: when every attempt of checkFanHealth timed out, the details of the
\* unhealthy status name the timeout.
NamesTimeout(text) == text = "Operation timed out"

C6_DetailNamesTimeout ==
  \A p \in Procs :
    (/\ opName[p] = "checkFanHealth" /\ pc[p] = "done"
     /\ invocations[p] >= 1 /\ timeouts[p] = invocations[p])
    => /\ result[p].status = "unhealthy"
       /\ \E i \in 1..Len(result[p].details) : NamesTimeout(result[p].details[i])

\* C7: no call of cleanup raises an error to its caller, whatever the state
\* of the socket.
C7_CleanupNeverRaises == cleanupRaised = FALSE

C7_Witness == cleanupCalls = 2 /\ socketState = "closed" /\ ~cleanupRaised

\* C8: there is one socket, never recreated, and its handle is closed once:
\* by the first cleanup, not again by a later one.
C8_OneSocketClosedOnce ==
  /\ sockets = 1
  /\ closeCount <= 1
  /\ cleanupCalls = 0 => closeCount = 0 /\ socketState = "open"
  /\ cleanupCalls >= 1 => closeCount = 1 /\ socketState = "closed"

C8_Witness ==
  /\ cleanupCalls = 2 /\ closeCount = 1
  /\ \E p \in Procs : sends[p] >= 2

\* C9: an operation in flight (inside an attempt or a backoff wait) while
\* the socket is closed never succeeds any more, and when timers fire it
\* ends with a failure of the network category.
C9_NoSuccessOnceClosed ==
  \A p \in Procs :
    socketState = "closed" /\ InFlight(p) => sendOutcome'[p] # "resolved"

C10_OnlyExhaustionSurfaces ==
  \A p \in Procs :
    opName[p] \in Commands /\ Failed(p)
    => /\ result[p].kind = "threw"
       /\ result[p].error = RetriesExhausted
       /\ result[p].error # lastError[p]
       /\ lastError[p].message \in
            {"Operation timed out", "Failed to send UDP message to fan", "Not running"}

C10_Witness ==
  \E p \in Procs :
    /\ opName[p] \in Commands /\ Failed(p)
    /\ timeouts[p] > 0 /\ timeouts[p] < invocations[p]
    /\ lastError[p].message = "Failed to send UDP message to fan"

\* C11: every failed send attempt fails with a NetworkError of one of two
\* kinds, the timeout or the send failure, also once the socket is closed.
C11_TwoFailureKinds ==
  \A p \in Procs :
    lastError[p] # NoError
    => lastError[p] \in {NetworkError(ERROR_MESSAGES("TIMEOUT")),
                         NetworkError(ERROR_MESSAGES("UDP_SEND_FAILED"))}

\* C12: an attempt calls client.send exactly once and nothing resends: an
\* operation that passed validation has made as many socket writes as
\* attempts, at least one and at most maxRetries, and no more of its
\* datagrams have reached the network than it has made attempts.
C12_OneWritePerAttempt ==
  \A p \in Procs :
    /\ sends[p] = invocations[p]
    /\ writes[p] <= invocations[p]
    /\ (pc[p] # "idle" /\ message[p] # NoMessage)
       => /\ invocations[p] = attempt[p]
          /\ invocations[p] >= 1
          /\ invocations[p] <= maxRetries

C12_Witness ==
  \E p \in Procs :
    /\ pc[p] = "done" /\ message[p] # NoMessage
    /\ sends[p] = 3 /\ invocations[p] = 3 /\ writes[p] = 2

\* C13: an operation reports success only in the step in which the send
\* callback of its current attempt comes without error while that attempt's
\* timer is still armed; nothing else is awaited. The callback of a send
\* whose attempt has timed out changes nothing of the operation's outcome.
C13_ReportsSuccess(p) ==
  \/ sendOutcome[p] # "resolved" /\ sendOutcome'[p] = "resolved"
  \/ result[p].kind # "returned" /\ result'[p] \in {Returned, Healthy}

C13_WriteInTime(p) ==
  /\ pc[p] = "attempt"
  /\ sendPending[p] /\ timerArmed[p]
  /\ attempt'[p] = attempt[p]
  /\ writes'[p] = writes[p] + 1
  /\ lateSends'[p] = lateSends[p]
  /\ timeouts'[p] = timeouts[p]
  /\ lastDatagram' = JSONStringify(message[p])

C13_LateWriteStep(p) == lateSends'[p] < lateSends[p]

C13_SuccessOnlyByTimelyWrite ==
  [][\A p \in Procs :
       /\ C13_ReportsSuccess(p) => C13_WriteInTime(p)
       /\ C13_LateWriteStep(p)
          => /\ pc'[p] = pc[p]
             /\ sendOutcome'[p] = sendOutcome[p]
             /\ result'[p] = result[p]]_vars

C13_Witness ==
  \E p \in Procs :
    /\ Failed(p)
    /\ timeouts[p] = invocations[p]
    /\ writes[p] >= 1 /\ lateSends[p] = 0
    /\ result[p].kind # "returned" \/ result[p].status = "unhealthy"

\* C14: every datagram handed to the network has exactly one member, which
\* is led or power with a boolean or speed with an integer from 1 to 6;
\* no member stands for an absent field.
C14_OneFieldPerDatagram ==
  lastDatagram # <<>>
  => /\ Len(lastDatagram) = 1
     /\ \/ /\ lastDatagram[1][1] \in {"led", "power"}
           /\ lastDatagram[1][2] \in {"true", "false"}
        \/ /\ lastDatagram[1][1] = "speed"
           /\ lastDatagram[1][2] \in {"1", "2", "3", "4", "5", "6"}

C14_Witness ==
  /\ lastDatagram = << <<"speed", "6">> >>
  /\ \E p \in Procs : Succeeded(p) /\ speedArg[p] = JsInt(6)

\* ---- the validation functions ---------------------------------------------
ValidatedSpeed == validation.fn = "validateFanSpeed" /\ validation.done
InSpeedRange(x) == x.t = "int" /\ x.v >= 1 /\ x.v <= 6
SpeedRangeError ==
  [name |-> "ValidationError", code |-> "VALIDATION_ERROR", statusCode |-> 400,
   message |-> "Fan speed must be between 1 and 6"]

\* C15: validateFanSpeed(x) returns x for every integer x from 1
\* to 6 and fails with the speed-range ValidationError for every other input.
C15_RangeErrorForAllOthers ==
  ValidatedSpeed
  => IF InSpeedRange(validation.input)
       THEN validation.output.ok /\ validation.output.value = validation.input.v
       ELSE ~validation.output.ok /\ validation.output.error = SpeedRangeError

ValidatedIp == validation.fn = "validateIpAddress" /\ validation.done

\* an IPv4 literal: four decimal numbers from 0 to 255 between dots
DottedQuad(x) ==
  /\ x.t = "string"
  /\ LET parts == Split(x.v, ".") IN
     /\ Len(parts) = 4
     /\ \A i \in 1..4 :
          IsDigits(parts[i]) /\ Len(parts[i]) <= 3 /\ DecValue(parts[i]) <= 255

\* C16: validateIpAddress(x) returns x exactly when x is an IPv4 literal
\* other than 0.0.0.0, and fails with a ValidationError for every other
\* input, IPv6 literals among them.
C16_OnlyNonZeroIPv4 ==
  ValidatedIp
  => LET x == validation.input
         out == validation.output
     IN  IF DottedQuad(x) /\ x.v # <<"0",".","0",".","0",".","0">>
           THEN out.ok /\ out.value = x.v
           ELSE ~out.ok /\ out.error.name = "ValidationError"

\* ---- the start of the process ---------------------------------------------
\* the endpoint as configured: the environment's values, or the defaults
\* where the environment has none
ConfiguredIp == IF env.FAN_IP.t = "undefined" \/ env.FAN_IP.v = <<>>
                  THEN JsStr(<<"1","9","2",".","1","6","8",".","1",".","1","3">>)
                  ELSE env.FAN_IP
ConfiguredPort == IF env.FAN_PORT.t = "undefined" \/ env.FAN_PORT.v = <<>>
                    THEN <<"5","6","0","0">>
                    ELSE env.FAN_PORT.v
ValidEndpoint ==
  /\ DottedQuad(ConfiguredIp)
  /\ ConfiguredIp.v # <<"0",".","0",".","0",".","0">>
  /\ IsDigits(ConfiguredPort) /\ Len(ConfiguredPort) <= 5
  /\ DecValue(ConfiguredPort) >= 1 /\ DecValue(ConfiguredPort) <= 65535

\* C17: when the configured FAN_IP is not a non-zero IPv4 address or the
\* configured FAN_PORT is not an integer from 1 to 65535, the loading aborts:
\* no tool is ever registered, the process never serves and no datagram is
\* ever sent.
C17_ServesOnlyValidEndpoint ==
  ~ValidEndpoint
  => /\ phase \in {"loading", "configured", "aborted"}
     /\ tools = {}
     /\ lastDatagram = <<>>
     /\ \A p \in Procs : sends[p] = 0

\* ---- operations running at the same time ----------------------------------
Waiting(p) == pc[p] = "backoff" \/ (pc[p] = "attempt" /\ sendPending[p])

\* C18: while one operation waits between two attempts or for its send
\* callback, another operation can be called, and one that is running can
\* take each of its steps: its callback, its timeout, its next attempt and
\* its return.
C18_WaitDoesNotBlock ==
  \A p \in Procs : \A q \in Procs \ {p} :
    Waiting(p)
    => /\ (pc[q] = "idle" /\ (\A r \in Procs : r < q => pc[r] # "idle")
           /\ calls < MaxCalls)
          => ENABLED checkFanHealth(q)
       /\ (pc[q] = "attempt" /\ sendPending[q])
          => /\ ENABLED SendCallbackErr(q)
             /\ ENABLED Timeout(q)
             /\ socketState = "open" => ENABLED SendCallbackOk(q)
       /\ pc[q] = "backoff" => ENABLED BackoffElapsed(q)
       /\ (pc[q] = "done" /\ lateSends[q] = 0 /\ staleTimers[q] = 0)
          => ENABLED Return(q)

C18_Witness ==
  /\ opName[1] = "setFanSpeed" /\ pc[1] = "backoff" /\ attempt[1] = 1
  /\ opName[2] = "checkFanHealth" /\ pc[2] = "done"
  /\ result[2] = Healthy /\ attempt[2] = 1

\* everything withRetry, sendUdpMessage and the facade keep for the
\* operation of slot p
OpState(p) ==
  <<pc[p], opName[p], speedArg[p], message[p], attempt[p], invocations[p],
    sends[p], delays[p], lastError[p], timeouts[p], timerArmed[p],
    sendPending[p], sendOutcome[p], sendError[p], result[p]>>

C19_StartsFresh(p) ==
  (pc[p] = "idle" /\ pc'[p] # "idle")
  => /\ attempt'[p] <= 1 /\ invocations'[p] = attempt'[p]
     /\ timeouts'[p] = 0
     /\ sendOutcome'[p] = "none" \/ maxRetries = 1
     /\ delays'[p] = IF pc'[p] = "backoff" THEN <<100>> ELSE <<>>

\* C19: operations share no retry state. A step changes the attempt counter,
\* the delays, the errors and the outcome of at most one operation and leaves
\* the retry limit alone; an operation that is called starts with its first
\* attempt and no delay behind it, whatever the other operations have done;
\* and every operation has the whole budget of maxRetries attempts.
C19_NoSharedRetryState ==
  [][/\ \A p \in Procs : \A q \in Procs :
          (p < q /\ OpState(p)' # OpState(p)) => OpState(q)' = OpState(q)
     /\ maxRetries' = maxRetries /\ config' = config
     /\ \A p \in Procs :
          /\ C19_StartsFresh(p)
          /\ (sendOutcome[p] = "none" /\ sendOutcome'[p] = "rejected")
             => invocations'[p] = maxRetries]_vars

C19_Witness ==
  /\ pc[1] = "attempt" /\ attempt[1] = 3 /\ delays[1] = <<100, 200>>
  /\ pc[2] = "backoff" /\ attempt[2] = 1 /\ delays[2] = <<100>>
  /\ lastError[1] # lastError[2]

\* ---- the logger -----------------------------------------------------------
\* C20: the logger failing changes nothing: no operation fails with the
\* logger's error, every operation whose input is valid calls client.send,
\* checkFanHealth returns a status, and cleanup closes the socket without
\* raising.
C20_LoggerFailureChangesNothing ==
  /\ \A p \in Procs :
       pc[p] = "done"
       => /\ result[p].error # LoggerError
          /\ (opName[p] # "setFanSpeed" \/ InSpeedRange(speedArg[p])) => sends[p] >= 1
          /\ opName[p] = "checkFanHealth" => result[p].kind = "returned"
  /\ cleanupCalls > 0 => socketState = "closed" /\ ~cleanupRaised

\* ---- the events ------------------------------------------------------------
\* the attempts of the operation of slot p that have failed so far
FailedAttempts(p) ==
  invocations[p] - (IF pc[p] = "attempt" \/ Succeeded(p) THEN 1 ELSE 0)

\* C21: the events follow the attempts: one attempt-started event for every
\* attempt, one attempt-failed event for every failed attempt, the last one
\* included, the retries-exhausted event exactly when the last attempt has
\* failed, and the operation-succeeded event exactly when an attempt has
\* succeeded.
C21_EventsFollowAttempts ==
  \A p \in Procs :
    (pc[p] # "idle" /\ message[p] # NoMessage)
    => /\ log[p]["Sending UDP message"] = invocations[p]
       /\ log[p]["Operation failed, retrying"] = FailedAttempts(p)
       /\ log[p]["Max retry attempts exceeded"] = (IF Failed(p) THEN 1 ELSE 0)
       /\ log[p]["succeeded"] = (IF Succeeded(p) THEN 1 ELSE 0)

\* ---- the health check as a probe -------------------------------------------
\* the step hands a datagram of the operation of slot p to the network
WritesDatagram(p) == writes'[p] = writes[p] + 1

\* C22: a health check whose datagram is delivered leaves the state of the
\* fan as it was, whatever that state was, the LED being on included.
C22_HealthCheckIsPureProbe ==
  [][\A p \in Procs :
       (opName[p] = "checkFanHealth" /\ WritesDatagram(p))
       => \A d \in DeviceStates : Deliver(d, lastDatagram') = d]_vars

\* ---- the tools and their operations ----------------------------------------
\* README 142-149: the facade operation of each tool
OwnOperation(name) ==
  CASE name = "check-fan-health" -> "checkFanHealth"
    [] name = "turn-on-fan" -> "turnOnFan"
    [] name = "turn-off-fan" -> "turnOffFan"
    [] name = "turn-on-led" -> "turnOnLed"
    [] name = "turn-off-led" -> "turnOffLed"
    [] name = "set-fan-speed" -> "setFanSpeed"

\* the handler of the tool of slot p has been called
HandlerCalled(p) == tool[p] # "" /\ opName[p] # ""

\* C23: a handler calls the facade operation of its tool and no other, the
\* tool gives its text only when that operation has returned (for a command:
\* when its send has resolved), a tool whose operation failed throws a
\* ValidationError or a NetworkError, and the speed that set-fan-speed hands
\* to setFanSpeed is an integer from 1 to 6.
C23_ToolsMapToOperations ==
  \A p \in Procs :
    /\ HandlerCalled(p) => opName[p] = OwnOperation(tool[p])
    /\ (tool[p] # "" /\ opName[p] = "")
         => tool[p] = "set-fan-speed" /\ ~InSpeedRange(speedArg[p])
    /\ (HandlerCalled(p) /\ opName[p] = "setFanSpeed")
         => speedArg[p] \in {JsInt(v) : v \in 1..6}
    /\ (HandlerCalled(p) /\ pc[p] = "done")
         => /\ ToolResult(p).kind \in {"text", "threw"}
            /\ ToolResult(p).kind = "text" <=> result[p].kind = "returned"
            /\ (ToolResult(p).kind = "text" /\ tool[p] # "check-fan-health")
                 => Succeeded(p)
            /\ ToolResult(p).kind = "text"
                 => ToolResult(p).text = SuccessText(tool[p], speedArg[p], result[p])
            /\ ToolResult(p).kind = "threw"
                 => ToolResult(p).error.name \in {"ValidationError", "NetworkError"}

\* a command tool has failed with the NetworkError of its operation
C23_Witness ==
  /\ tool[1] = "turn-on-led"
  /\ opName[1] = "turnOnLed"
  /\ pc[1] = "done"
  /\ ToolResult(1) = ToolThrew(NetworkError(ERROR_MESSAGES("RETRY_EXHAUSTED")))

\* ---- termination -----------------------------------------------------------
\* C24: when timers fire every operation ends: it starts no more than
\* maxRetries attempts, an attempt that waits has its timeout timer armed (so
\* that it ends even when no send callback ever arrives), and an operation
\* inside an attempt or a backoff wait comes to its end.
C24_BoundedAndTimed ==
  \A p \in Procs :
    /\ invocations[p] <= maxRetries
    /\ Len(delays[p]) < maxRetries
    /\ pc[p] = "attempt" => timerArmed[p]

C24_EveryOperationTerminates ==
  /\ []C24_BoundedAndTimed
  /\ \A p \in Procs : InFlight(p) ~> (pc[p] = "done")

\* every attempt of an operation was ended by its timeout
C24_Witness ==
  /\ pc[1] = "done" /\ maxRetries = 3
  /\ timeouts[1] = 3 /\ writes[1] = 0 /\ socketState = "open"

\* ---- nothing is sent after the close ---------------------------------------
\* the step starts an attempt of the operation of slot p
StartsAttempt(p) == invocations'[p] = invocations[p] + 1

\* C25: once cleanup has closed the socket it stays closed and no datagram
\* goes out any more; an attempt started after the close, the first of a new
\* operation or a retry of one in flight, fails in the step that starts it,
\* with no send awaited.
C25_SilentStep ==
  socketState = "closed"
  => /\ socketState' = "closed"
     /\ lastDatagram' = lastDatagram
     /\ \A p \in Procs :
          /\ writes'[p] <= writes[p]
          /\ StartsAttempt(p)
               => /\ pc'[p] \in {"backoff", "done"}
                  /\ ~sendPending'[p]
                  /\ lastError'[p] = NotRunningError
                  /\ sendOutcome'[p] # "resolved"

C25_NoDatagramAfterClose == [][C25_SilentStep]_vars

\* the retry of an operation that was in flight when the socket was closed
\* has failed on the closed socket
C25_Witness ==
  /\ socketState = "closed"
  /\ timeouts[1] = 1 /\ invocations[1] = 2
  /\ lastError[1] = NotRunningError
  /\ writes[1] = 0

\* ---- an attempt settles once -----------------------------------------------
\* what the retry loop of slot p and its caller have got so far
Progress(p) ==
  <<pc[p], attempt[p], invocations[p], sends[p], delays[p], lastError[p],
    timeouts[p], sendOutcome[p], sendError[p], result[p]>>

\* the timer and the send callback of an attempt are due together, and only
\* while the operation waits in that attempt
C26_DueTogether ==
  \A p \in Procs :
    /\ timerArmed[p] <=> sendPending[p]
    /\ timerArmed[p] <=> pc[p] = "attempt"

\* a step in which the callback of a timed-out send comes, or the timer of
\* an attempt that has settled fires
C26_LeftoverStep(p) ==
  lateSends'[p] < lateSends[p] \/ staleTimers'[p] < staleTimers[p]

\* C26: an attempt settles once however its timer and its send callback are
\* ordered: the step that settles it takes both away, so the timeout never
\* fires after the callback has run, and the callback of a send that has
\* timed out (like the timer of an attempt that has settled) changes neither
\* the outcome of the attempt nor the result of the operation nor the number
\* of attempts.
C26_SettlesOnce ==
  /\ []C26_DueTogether
  /\ [][\A p \in Procs :
          /\ timeouts'[p] > timeouts[p] => sendPending[p] /\ ~sendPending'[p]
          /\ C26_LeftoverStep(p) => Progress(p)' = Progress(p)]_vars

\* the callback of the first send came while the operation waited for its
\* second attempt, and no attempt was added
C26_Witness ==
  /\ pc[1] = "backoff"
  /\ timeouts[1] = 1 /\ invocations[1] = 1
  /\ writes[1] = 1 /\ lateSends[1] = 0

\* ---- no timer is left behind -----------------------------------------------
\* C27: an attempt that has settled, by success, send error, timeout or the
\* throw of client.send on a closed socket, has no timeout timer pending, and
\* an operation that has ended has none of its timers armed.
C27_NoTimerLeftPending ==
  \A p \in Procs :
    /\ staleTimers[p] = 0
    /\ pc[p] \in {"backoff", "done"} => ~timerArmed[p]


\* ---- shutdown --------------------------------------------------------------
Connected == transport # "none"

\* the step in which the process exits
Exits == Running /\ ~Running'

\* C28: a SIGINT or SIGTERM that arrives when the server is connected cleans
\* up the UDP socket once, closes the transport and then ends the process
\* with code 0: a connected server that has exited has its transport closed.
C28_ClosedBeforeExit ==
  (Connected /\ ~Running) => transport = "closed" /\ exitCode = <<0>>

C28_GracefulShutdownInOrder ==
  /\ []C28_ClosedBeforeExit
  /\ [][(Connected /\ Exits) => cleanupCalls' = cleanupCalls + 1]_vars
====
